---- MODULE Spec2Model ----
\* Model of the e2e-tests helper library: the Application CRUD helpers of
\* pkg/utils/has/applications.go and the log collector StoreTestLogs.
\* The Kubernetes API server is the environment: every request it serves may
\* fail with an error that is not not-found, a controller fills in
\* Status.Devfile, and deletions may complete later than the delete request.
\* Time is counted in poll intervals of utils.WaitUntil.
EXTENDS Integers, Sequences, FiniteSets, TLC

----------------------------------------------------------------------------
\* Bounds and value sets

\* Largest caller-supplied timeout, in poll intervals.
MaxTimeout == 2

\* The 1*time.Minute of DeleteApplication's absence poll, in poll intervals.
DeleteTimeout == 2

Names == {"a", "b"}

Namespaces == {"ns1", "ns2"}

Timeouts == (0 - 1) .. MaxTimeout

\* The (name, namespace) pairs the calls are made with.
Keys == [name : Names, namespace : Namespaces] \ {[name |-> "b", namespace |-> "ns2"]}

Key(name, namespace) == [name |-> name, namespace |-> namespace]

----------------------------------------------------------------------------
\* Errors and objects

\* An error value: kind, the kind of the error it wraps (%+v of err), and the
\* serialized object a composed message carries.
Err(kind, cause, detail) == [kind |-> kind, cause |-> cause, detail |-> detail]

NoErr == Err("nil", "", "")

ErrNotFound == Err("NotFound", "", "")

ErrAlreadyExists == Err("AlreadyExists", "", "")

ErrInternal == Err("InternalError", "", "")

ErrWaitTimeout == Err("ErrWaitTimeout", "", "")

IsNotFound(err) == err.kind = "NotFound"

\* appservice.Application, reduced to the fields the helpers read or write.
App(name, namespace, displayName, devfile) ==
    [isNil |-> FALSE, Name |-> name, Namespace |-> namespace,
     Spec |-> [DisplayName |-> displayName], Status |-> [Devfile |-> devfile]]

NilApp ==
    [isNil |-> TRUE, Name |-> "", Namespace |-> "",
     Spec |-> [DisplayName |-> ""], Status |-> [Devfile |-> ""]]

\* utils.ToPrettyJSONString, reduced to what tells two serialized objects apart.
ToPrettyJSONString(app) ==
    IF app.isNil THEN "null"
    ELSE IF app.Name = "" THEN "{}"
    ELSE IF app.Status.Devfile = "" THEN "{no devfile}"
    ELSE app.Status.Devfile

\* An object slot of the remote store.
Absent == [exists |-> FALSE, deleting |-> FALSE, DisplayName |-> "", Devfile |-> ""]

Stored(displayName) ==
    [exists |-> TRUE, deleting |-> FALSE, DisplayName |-> displayName, Devfile |-> ""]

----------------------------------------------------------------------------
VARIABLES
    store,        \* the remote object store: Keys -> object slot
    op,           \* the helper call in progress or last returned
    pc,           \* its position: "idle", "wait", "done"
    args,         \* its arguments
    application,  \* the object the call's condition closes over
    elapsed,      \* poll intervals spent in the current WaitUntil
    ret,          \* the returned (object, error)
    hist          \* what the call has done to its collaborators so far

vars == <<store, op, pc, args, application, elapsed, ret, hist>>

NoArgs ==
    [name |-> "", namespace |-> "", timeout |-> 0, reportErrorOnNotFound |-> FALSE]

NoRet == [app |-> NilApp, err |-> NoErr]

NoHist ==
    [creates |-> 0, deletes |-> 0, deleteAlls |-> 0, reqErr |-> NoErr,
     gets |-> <<>>, lists |-> <<>>, conds |-> <<>>,
     mkdirs |-> 0, calls |-> <<>>, sink |-> <<>>,
     outcome |-> [dir |-> <<>>, mkdirOk |-> FALSE, podOk |-> FALSE, pipelineOk |-> FALSE]]

----------------------------------------------------------------------------
\* The remote store's answers. fault = the request fails with an error other
\* than not-found (connection refused, internal error, ...).

\* h.KubeRest().Get
KubeGet(key, fault) ==
    IF fault THEN [err |-> ErrInternal, obj |-> Absent]
    ELSE IF ~store[key].exists THEN [err |-> ErrNotFound, obj |-> Absent]
    ELSE [err |-> NoErr, obj |-> store[key]]

\* h.KubeRest().Create: the answer and the store afterwards.
KubeCreate(key, displayName, fault) ==
    IF fault THEN [err |-> ErrInternal, store |-> store]
    ELSE IF store[key].exists THEN [err |-> ErrAlreadyExists, store |-> store]
    ELSE [err |-> NoErr, store |-> [store EXCEPT ![key] = Stored(displayName)]]

\* h.KubeRest().Delete: now = the object goes at once, otherwise it is marked
\* for deletion and goes when its finalizers are done.
KubeDelete(key, fault, now) ==
    IF fault THEN [err |-> ErrInternal, store |-> store]
    ELSE IF ~store[key].exists THEN [err |-> ErrNotFound, store |-> store]
    ELSE IF now THEN [err |-> NoErr, store |-> [store EXCEPT ![key] = Absent]]
    ELSE [err |-> NoErr, store |-> [store EXCEPT ![key].deleting = TRUE]]

\* h.KubeRest().DeleteAllOf(..., InNamespace(namespace)): the objects of gone
\* go at once, the namespace's others are marked for deletion.
KubeDeleteAllOf(namespace, fault, gone) ==
    IF fault THEN [err |-> ErrInternal, store |-> store]
    ELSE [err |-> NoErr,
          store |-> [k \in Keys |->
                       IF k.namespace # namespace \/ ~store[k].exists THEN store[k]
                       ELSE IF k \in gone THEN Absent
                       ELSE [store[k] EXCEPT !.deleting = TRUE]]]

\* h.KubeRest().List(..., &ListOptions{Namespace: namespace}): the number of items.
KubeList(namespace, fault) ==
    IF fault THEN [err |-> ErrInternal, items |-> 0]
    ELSE [err |-> NoErr,
          items |-> Cardinality({k \in Keys : k.namespace = namespace /\ store[k].exists})]

----------------------------------------------------------------------------
\* The helpers' pure parts

\* GetApplication, given the store's answer g.
GetApplication(name, namespace, g) ==
    IF g.err # NoErr THEN [app |-> NilApp, err |-> g.err]
    ELSE [app |-> App(name, namespace, g.obj.DisplayName, g.obj.Devfile), err |-> NoErr]

DevfilePresentNoCheck(app, r) ==
    IF r.err # NoErr THEN [done |-> FALSE, err |-> NoErr, application |-> app]
    ELSE [done |-> TRUE, err |-> NoErr,
          application |-> [app EXCEPT !.Status = r.app.Status]]

DevfilePresentPropagates(app, r) ==
    IF r.err # NoErr THEN [done |-> FALSE, err |-> r.err, application |-> app]
    ELSE [done |-> r.app.Status.Devfile # "", err |-> NoErr,
          application |-> [app EXCEPT !.Status = r.app.Status]]

\* One evaluation of the condition ApplicationDevfilePresent(application),
\* r being what GetApplication returned: (done, err) and the object pointed to.
ApplicationDevfilePresent(app, r) ==
    IF r.err # NoErr THEN [done |-> FALSE, err |-> NoErr, application |-> app]
    ELSE [done |-> r.app.Status.Devfile # "", err |-> NoErr,
          application |-> [app EXCEPT !.Status = r.app.Status]]

DeletedOnAnyError(r) == [done |-> r.err # NoErr, err |-> NoErr]

\* One evaluation of the condition ApplicationDeleted(application).
ApplicationDeleted(r) == [done |-> r.err # NoErr /\ IsNotFound(r.err), err |-> NoErr]

ListEmptyOnError(l) == [done |-> l.items = 0, err |-> NoErr]

\* One evaluation of the condition of DeleteAllApplicationsInASpecificNamespace.
ListCondition(l) ==
    IF l.err # NoErr THEN [done |-> FALSE, err |-> NoErr]
    ELSE [done |-> l.items = 0, err |-> NoErr]

\* refreshApplicationForErrorDebug, g being the store's answer to its Get.
refreshApplicationForErrorDebug(app, g) ==
    IF g.err # NoErr THEN app
    ELSE App(app.Name, app.Namespace, g.obj.DisplayName, g.obj.Devfile)

\* utils.WaitUntil: has the deadline passed before the next evaluation.
WaitExpired(spent, timeout) == spent >= timeout

\* utils.WaitUntil: what one evaluation (done, err) of the condition leads to.
WaitOutcome(c) ==
    IF c.err # NoErr THEN [fin |-> TRUE, err |-> c.err]
    ELSE IF c.done THEN [fin |-> TRUE, err |-> NoErr]
    ELSE [fin |-> FALSE, err |-> NoErr]

----------------------------------------------------------------------------
Init ==
    /\ store = [k \in Keys |-> Absent]
    /\ op = "none"
    /\ pc = "idle"
    /\ args = NoArgs
    /\ application = NilApp
    /\ elapsed = 0
    /\ ret = NoRet
    /\ hist = NoHist

\* A new call may begin when none is in progress.
Idle == pc \in {"idle", "done"}

Begin(o, a) ==
    /\ Idle
    /\ op' = o
    /\ args' = a
    /\ elapsed' = 0

Return(app, err) ==
    /\ pc' = "done"
    /\ ret' = [app |-> app, err |-> err]

Answer(g) == [err |-> g.err.kind, devfile |-> g.obj.Devfile]

----------------------------------------------------------------------------
\* CreateApplicationWithTimeout

CreateRejectedWrapped(err) ==
    [app |-> NilApp, err |-> Err("error creating an application", err.kind, "")]

\* The return when KubeRest().Create fails: return nil, err.
CreateRejected(err) == [app |-> NilApp, err |-> err]

CreateFailureKeepsApp(name, namespace, waitErr, refreshed) ==
    [app |-> refreshed,
     err |-> Err("timed out when waiting for devfile content creation",
                 waitErr.kind, ToPrettyJSONString(refreshed))]

\* The return when WaitUntil fails with waitErr: nil and the composed error,
\* which carries the refreshed object serialized.
CreateFailure(name, namespace, waitErr, refreshed) ==
    [app |-> NilApp,
     err |-> Err("timed out when waiting for devfile content creation",
                 waitErr.kind, ToPrettyJSONString(refreshed))]

\* The call up to and including KubeRest().Create.
CreateApplicationWithTimeout ==
    \E key \in Keys, timeout \in Timeouts, fault \in BOOLEAN :
        LET name == key.name
            namespace == key.namespace
            c == KubeCreate(Key(name, namespace), name, fault)
            r == CreateRejected(c.err)
        IN  /\ Begin("create", [NoArgs EXCEPT !.name = name, !.namespace = namespace,
                                              !.timeout = timeout])
            /\ store' = c.store
            /\ application' = App(name, namespace, name, "")
            /\ hist' = [NoHist EXCEPT !.creates = 1, !.reqErr = c.err]
            /\ IF c.err # NoErr
               THEN Return(r.app, r.err)
               ELSE pc' = "wait" /\ ret' = NoRet

\* One iteration of WaitUntil(ApplicationDevfilePresent(application), timeout).
CreatePoll ==
    /\ op = "create" /\ pc = "wait"
    /\ ~WaitExpired(elapsed, args.timeout)
    /\ \E fault \in BOOLEAN, fault2 \in BOOLEAN :
        LET k == Key(args.name, args.namespace)
            g == KubeGet(k, fault)
            c == ApplicationDevfilePresent(
                     application, GetApplication(application.Name, application.Namespace, g))
            o == WaitOutcome(c)
            g2 == KubeGet(k, fault2)
            f == CreateFailure(args.name, args.namespace, o.err,
                               refreshApplicationForErrorDebug(c.application, g2))
            polled == [hist EXCEPT !.gets = Append(@, Answer(g)),
                                   !.conds = Append(@, [done |-> c.done, err |-> c.err.kind])]
        IN  /\ application' = c.application
            /\ IF o.fin /\ o.err = NoErr
               THEN /\ Return(c.application, NoErr)
                    /\ hist' = polled
                    /\ elapsed' = elapsed
               ELSE IF o.fin
               THEN /\ Return(f.app, f.err)
                    /\ hist' = [polled EXCEPT !.gets = Append(@, Answer(g2))]
                    /\ elapsed' = elapsed
               ELSE /\ hist' = polled
                    /\ elapsed' = elapsed + 1
                    /\ UNCHANGED <<pc, ret>>
    /\ UNCHANGED <<store, op, args>>

\* WaitUntil ends at its deadline; the object is fetched again and the
\* composed error returned.
CreateTimedOut ==
    /\ op = "create" /\ pc = "wait"
    /\ WaitExpired(elapsed, args.timeout)
    /\ \E fault \in BOOLEAN :
        LET g == KubeGet(Key(args.name, args.namespace), fault)
            f == CreateFailure(args.name, args.namespace, ErrWaitTimeout,
                               refreshApplicationForErrorDebug(application, g))
        IN  /\ Return(f.app, f.err)
            /\ hist' = [hist EXCEPT !.gets = Append(@, Answer(g))]
    /\ UNCHANGED <<store, op, args, application, elapsed>>

----------------------------------------------------------------------------
\* GetApplication as a call of its own

GetApplicationCall ==
    \E key \in Keys, fault \in BOOLEAN :
        LET name == key.name
            namespace == key.namespace
            g == KubeGet(Key(name, namespace), fault)
            r == GetApplication(name, namespace, g)
        IN  /\ Begin("get", [NoArgs EXCEPT !.name = name, !.namespace = namespace])
            /\ hist' = [NoHist EXCEPT !.gets = <<Answer(g)>>]
            /\ Return(r.app, r.err)
            /\ application' = NilApp
            /\ UNCHANGED store

----------------------------------------------------------------------------
\* DeleteApplication

DeleteReportsNever(err, reportErrorOnNotFound) == FALSE

DeleteReportsAnyError(err, reportErrorOnNotFound) == err # NoErr

\* The test that makes DeleteApplication return the delete request's error.
DeleteReports(err, reportErrorOnNotFound) ==
    err # NoErr /\ (~IsNotFound(err) \/ (IsNotFound(err) /\ reportErrorOnNotFound))

\* The call up to and including KubeRest().Delete.
DeleteApplication ==
    \E key \in Keys, report \in BOOLEAN, fault \in BOOLEAN, now \in BOOLEAN :
        LET name == key.name
            namespace == key.namespace
            d == KubeDelete(Key(name, namespace), fault, now)
        IN  /\ Begin("delete", [NoArgs EXCEPT !.name = name, !.namespace = namespace,
                                              !.reportErrorOnNotFound = report])
            /\ store' = d.store
            /\ application' = App(name, namespace, "", "")
            /\ hist' = [NoHist EXCEPT !.deletes = 1, !.reqErr = d.err]
            /\ IF DeleteReports(d.err, report)
               THEN Return(NilApp, Err("error deleting an application", d.err.kind, ""))
               ELSE pc' = "wait" /\ ret' = NoRet

\* One iteration of WaitUntil(ApplicationDeleted(&application), 1*time.Minute).
DeletePoll ==
    /\ op = "delete" /\ pc = "wait"
    /\ ~WaitExpired(elapsed, DeleteTimeout)
    /\ \E fault \in BOOLEAN :
        LET g == KubeGet(Key(args.name, args.namespace), fault)
            c == ApplicationDeleted(
                     GetApplication(application.Name, application.Namespace, g))
            o == WaitOutcome(c)
        IN  /\ hist' = [hist EXCEPT !.gets = Append(@, Answer(g)),
                                    !.conds = Append(@, [done |-> c.done, err |-> c.err.kind])]
            /\ IF o.fin
               THEN Return(NilApp, o.err) /\ elapsed' = elapsed
               ELSE elapsed' = elapsed + 1 /\ UNCHANGED <<pc, ret>>
    /\ UNCHANGED <<store, op, args, application>>

DeleteTimedOut ==
    /\ op = "delete" /\ pc = "wait"
    /\ WaitExpired(elapsed, DeleteTimeout)
    /\ Return(NilApp, ErrWaitTimeout)
    /\ UNCHANGED <<store, op, args, application, elapsed, hist>>

----------------------------------------------------------------------------
\* DeleteAllApplicationsInASpecificNamespace

\* The call up to and including KubeRest().DeleteAllOf.
DeleteAllApplicationsInASpecificNamespace ==
    \E namespace \in Namespaces, timeout \in Timeouts, fault \in BOOLEAN :
      \E gone \in SUBSET {k \in Keys : k.namespace = namespace /\ store[k].exists} :
        LET d == KubeDeleteAllOf(namespace, fault, gone)
        IN  /\ Begin("deleteAll", [NoArgs EXCEPT !.namespace = namespace,
                                                 !.timeout = timeout])
            /\ store' = d.store
            /\ application' = NilApp
            /\ hist' = [NoHist EXCEPT !.deleteAlls = 1, !.reqErr = d.err]
            /\ IF d.err # NoErr
               THEN Return(NilApp, Err("error deleting applications from the namespace",
                                       d.err.kind, ""))
               ELSE pc' = "wait" /\ ret' = NoRet

\* One iteration of WaitUntil(func() { List ...; len(Items) == 0 }, timeout).
DeleteAllPoll ==
    /\ op = "deleteAll" /\ pc = "wait"
    /\ ~WaitExpired(elapsed, args.timeout)
    /\ \E fault \in BOOLEAN :
        LET l == KubeList(args.namespace, fault)
            c == ListCondition(l)
            o == WaitOutcome(c)
        IN  /\ hist' = [hist EXCEPT !.lists = Append(@, [err |-> l.err.kind, items |-> l.items]),
                                    !.conds = Append(@, [done |-> c.done, err |-> c.err.kind])]
            /\ IF o.fin
               THEN Return(NilApp, o.err) /\ elapsed' = elapsed
               ELSE elapsed' = elapsed + 1 /\ UNCHANGED <<pc, ret>>
    /\ UNCHANGED <<store, op, args, application>>

DeleteAllTimedOut ==
    /\ op = "deleteAll" /\ pc = "wait"
    /\ WaitExpired(elapsed, args.timeout)
    /\ Return(NilApp, ErrWaitTimeout)
    /\ UNCHANGED <<store, op, args, application, elapsed, hist>>

----------------------------------------------------------------------------
\* StoreTestLogs

ErrMkdir == Err("MkdirAll", "", "")

\* GetEnv("ARTIFACT_DIR", wd + "/tmp") and the per-namespace directory under it.
TestLogsDir(artifactDir, testNamespace) ==
    <<IF artifactDir = "" THEN "wd/tmp" ELSE artifactDir, testNamespace>>

LogsFailOnExportError(mkdirOk, podOk, pipelineOk) ==
    IF ~mkdirOk THEN [err |-> ErrMkdir, calls |-> <<>>, sink |-> <<>>]
    ELSE IF ~podOk
    THEN [err |-> Err("StorePodLogs", "", ""), calls |-> <<"StorePodLogs">>, sink |-> <<>>]
    ELSE IF ~pipelineOk
    THEN [err |-> Err("StorePipelineRuns", "", ""),
          calls |-> <<"StorePodLogs", "StorePipelineRuns">>, sink |-> <<>>]
    ELSE [err |-> NoErr, calls |-> <<"StorePodLogs", "StorePipelineRuns">>, sink |-> <<>>]

LogsSkipAfterPodFailure(mkdirOk, podOk, pipelineOk) ==
    IF ~mkdirOk THEN [err |-> ErrMkdir, calls |-> <<>>, sink |-> <<>>]
    ELSE IF ~podOk
    THEN [err |-> NoErr, calls |-> <<"StorePodLogs">>,
          sink |-> <<"Failed to store pod logs">>]
    ELSE [err |-> NoErr,
          calls |-> <<"StorePodLogs", "StorePipelineRuns">>,
          sink |-> IF pipelineOk THEN <<>> ELSE <<"Failed to store pipelineRun logs">>]

\* The body of StoreTestLogs after the directory name is built, given how
\* MkdirAll and the two exports end: the error returned, the exports invoked
\* in order, and the lines written to GinkgoWriter.
StoreTestLogsBody(mkdirOk, podOk, pipelineOk) ==
    IF ~mkdirOk THEN [err |-> ErrMkdir, calls |-> <<>>, sink |-> <<>>]
    ELSE [err |-> NoErr,
          calls |-> <<"StorePodLogs", "StorePipelineRuns">>,
          sink |-> (IF podOk THEN <<>> ELSE <<"Failed to store pod logs">>)
                   \o (IF pipelineOk THEN <<>> ELSE <<"Failed to store pipelineRun logs">>)]

StoreTestLogs ==
    \E testNamespace \in Namespaces, artifactDir \in {"", "/artifacts"},
       mkdirOk \in BOOLEAN, podOk \in BOOLEAN, pipelineOk \in BOOLEAN :
        LET b == StoreTestLogsBody(mkdirOk, podOk, pipelineOk)
        IN  /\ Begin("storeLogs", [NoArgs EXCEPT !.namespace = testNamespace])
            /\ hist' = [NoHist EXCEPT !.mkdirs = 1, !.calls = b.calls, !.sink = b.sink,
                                      !.outcome = [dir |-> TestLogsDir(artifactDir, testNamespace),
                                                   mkdirOk |-> mkdirOk, podOk |-> podOk,
                                                   pipelineOk |-> pipelineOk]]
            /\ Return(NilApp, b.err)
            /\ application' = NilApp
            /\ UNCHANGED store

----------------------------------------------------------------------------
\* The environment

\* The application controller fills in Status.Devfile.
Reconcile ==
    /\ \E k \in Keys :
        /\ store[k].exists
        /\ store[k].Devfile = ""
        /\ store' = [store EXCEPT ![k].Devfile = "devfile"]
    /\ UNCHANGED <<op, pc, args, application, elapsed, ret, hist>>

\* An object marked for deletion leaves the store.
Finalize ==
    /\ \E k \in Keys :
        /\ store[k].exists /\ store[k].deleting
        /\ store' = [store EXCEPT ![k] = Absent]
    /\ UNCHANGED <<op, pc, args, application, elapsed, ret, hist>>

----------------------------------------------------------------------------
Next ==
    \/ CreateApplicationWithTimeout
    \/ CreatePoll
    \/ CreateTimedOut
    \/ GetApplicationCall
    \/ DeleteApplication
    \/ DeletePoll
    \/ DeleteTimedOut
    \/ DeleteAllApplicationsInASpecificNamespace
    \/ DeleteAllPoll
    \/ DeleteAllTimedOut
    \/ StoreTestLogs
    \/ Reconcile
    \/ Finalize

Spec == Init /\ [][Next]_vars

\* A step of a poll loop in progress: an evaluation of its condition after
\* the poll interval, or its deadline.
PollStep ==
    \/ CreatePoll
    \/ CreateTimedOut
    \/ DeletePoll
    \/ DeleteTimedOut
    \/ DeleteAllPoll
    \/ DeleteAllTimedOut

\* The calling thread is blocked in its poll loop and nothing else: a loop
\* that can take a step takes one.
FairSpec == Spec /\ WF_vars(PollStep)

----------------------------------------------------------------------------
\* Properties

Last(q) == q[Len(q)]

CallKey == Key(args.name, args.namespace)

Returned(o) == op = o /\ pc = "done"

TimedOutKind == "timed out when waiting for devfile content creation"

\* C1: when CreateApplicationWithTimeout returns a nil error, the returned
\* Application is the one asked for, its Status.Devfile is non-empty, its
\* status is the status the Get of the last poll returned, that poll reported
\* done, and so some observed status had a non-empty devfile.
C1_CreateSuccessIsReady ==
    (Returned("create") /\ ret.err = NoErr) =>
        /\ ~ret.app.isNil
        /\ ret.app.Name = args.name /\ ret.app.Namespace = args.namespace
        /\ ret.app.Status.Devfile # ""
        /\ hist.gets # <<>> /\ Len(hist.conds) = Len(hist.gets)
        /\ Last(hist.gets).err = "nil"
        /\ Last(hist.gets).devfile = ret.app.Status.Devfile
        /\ Last(hist.conds).done
        /\ \E i \in 1 .. Len(hist.gets) : hist.gets[i].devfile # ""

\* A create that succeeded at its second poll, after a poll that saw the
\* object without a devfile.
C1_Witness ==
    /\ Returned("create") /\ ret.err = NoErr
    /\ Len(hist.gets) = 2
    /\ hist.gets[1] = [err |-> "nil", devfile |-> ""]
    /\ ret.app.Status.Devfile = "devfile"

C3_DeleteSuccessMeansAbsent ==
    (Returned("delete") /\ ret.err = NoErr) =>
        /\ hist.deletes = 1
        /\ hist.gets # <<>>
        /\ Last(hist.gets).err = "NotFound"
        /\ ~store[CallKey].exists
        /\ GetApplication(args.name, args.namespace, KubeGet(CallKey, FALSE))
             = [app |-> NilApp, err |-> ErrNotFound]

\* A delete the store accepted without removing the object at once, which
\* returned nil at its second lookup.
C3_Witness ==
    /\ Returned("delete") /\ ret.err = NoErr
    /\ hist.reqErr = NoErr
    /\ Len(hist.gets) = 2
    /\ hist.gets[1].err = "nil"

\* While a create with a zero or negative timeout that the store accepted
\* is in progress it cannot evaluate its condition, only reach its deadline;
\* once it has returned, it returned a nil object and the composed timeout
\* error, which carries the object fetched once more.
NonPositiveTimeoutTimesOut ==
    (op = "create" /\ args.timeout <= 0 /\ hist.reqErr = NoErr) =>
        /\ hist.creates = 1
        /\ pc \in {"wait", "done"}
        /\ pc = "wait" => /\ ENABLED CreateTimedOut
                          /\ ~ENABLED CreatePoll
        /\ pc = "done" => /\ ret.app.isNil
                          /\ ret.err.kind = TimedOutKind
                          /\ ret.err.cause = "ErrWaitTimeout"
                          /\ ret.err.detail \in {"{no devfile}", "devfile"}
                          /\ hist.conds = <<>>
                          /\ Len(hist.gets) = 1

\* C4: CreateApplicationWithTimeout with a zero or negative timeout, once
\* the store has accepted the create, terminates, without polling, and
\* returns a nil object and the timeout error.
C4_NonPositiveTimeoutTerminates ==
    /\ []NonPositiveTimeoutTimesOut
    /\ (op = "create" /\ pc = "wait" /\ args.timeout <= 0) ~> (op = "create" /\ pc = "done")

\* A create with timeout zero that the store accepted and that returned the
\* timeout error, the object having its devfile by then.
C4_Witness ==
    /\ Returned("create") /\ args.timeout = 0 /\ hist.reqErr = NoErr
    /\ ret.err.cause = "ErrWaitTimeout"
    /\ ret.err.detail = "devfile"

\* Some List of the call was served and returned zero items.
SawEmptyList == \E i \in 1 .. Len(hist.lists) : hist.lists[i] = [err |-> "nil", items |-> 0]

\* C5: DeleteAllApplicationsInASpecificNamespace returns nil exactly when
\* the bulk delete was accepted and a List made before the deadline returned
\* zero items, and that List is its last; when the bulk delete fails it
\* returns the composed error without any List; when no List was empty by
\* the deadline it returns the timeout error.
C5_DeleteAllSuccessIffEmptyList ==
    Returned("deleteAll") =>
        /\ hist.deleteAlls = 1
        /\ ret.err = NoErr <=> (hist.reqErr = NoErr /\ SawEmptyList)
        /\ Len(hist.lists) <= IF args.timeout > 0 THEN args.timeout ELSE 0
        /\ SawEmptyList => Last(hist.lists).items = 0 /\ Last(hist.lists).err = "nil"
        /\ hist.reqErr # NoErr =>
              /\ hist.lists = <<>>
              /\ ret.err = Err("error deleting applications from the namespace",
                               hist.reqErr.kind, "")
        /\ (hist.reqErr = NoErr /\ ~SawEmptyList) =>
              /\ ret.err = ErrWaitTimeout
              /\ Len(hist.lists) = IF args.timeout > 0 THEN args.timeout ELSE 0

\* A bulk delete that returned nil at its second List, the first having
\* still seen one object of the namespace after another had gone.
C5_Witness ==
    /\ Returned("deleteAll") /\ ret.err = NoErr
    /\ hist.lists = <<[err |-> "nil", items |-> 1], [err |-> "nil", items |-> 0]>>
    /\ args.namespace = "ns1"

\* C6: StoreTestLogs returns a non-nil error exactly when MkdirAll fails,
\* whatever the two exports return.
C6_LogsErrorIffMkdirFails ==
    Returned("storeLogs") =>
        /\ hist.mkdirs = 1
        /\ ret.err # NoErr <=> ~hist.outcome.mkdirOk
        /\ ~hist.outcome.mkdirOk => ret.err = ErrMkdir

\* The directory was created, both exports failed, and nil was returned.
C6_Witness ==
    /\ Returned("storeLogs")
    /\ hist.outcome.mkdirOk /\ ~hist.outcome.podOk /\ ~hist.outcome.pipelineOk
    /\ ret.err = NoErr
    /\ Len(hist.sink) = 2

\* C7 as stated: every return of DeleteApplication is preceded by at least
\* one Get-based absence check.
C7_Original == Returned("delete") => Len(hist.gets) >= 1

\* C7 amended: DeleteApplication polls for absence, with at least one Get,
\* before it returns when the delete request succeeded or answered not-found
\* with reportErrorOnNotFound false; when the request failed otherwise
\* (not-found with reportErrorOnNotFound true, or any other error) it returns
\* the composed delete error at once, without any Get.
C7_DeletePollsUnlessRequestErrorReturned ==
    Returned("delete") =>
        IF \/ hist.reqErr = NoErr
           \/ (hist.reqErr = ErrNotFound /\ ~args.reportErrorOnNotFound)
        THEN /\ Len(hist.gets) >= 1
             /\ Len(hist.conds) = Len(hist.gets)
             /\ ret.err \in {NoErr, ErrWaitTimeout}
        ELSE /\ hist.gets = <<>>
             /\ ret.err = Err("error deleting an application", hist.reqErr.kind, "")

\* A delete whose request failed with an error other than not-found while
\* reportErrorOnNotFound was false: it returned without polling.
C7_Witness ==
    /\ Returned("delete")
    /\ hist.reqErr = ErrInternal /\ ~args.reportErrorOnNotFound
    /\ hist.gets = <<>>
    /\ ret.err # NoErr

\* C8: no evaluation of a poll condition returns an error: on a failed
\* lookup (for ApplicationDeleted, one failed otherwise than by not-found)
\* it returns (false, nil); so a poll loop that has ended ended with its
\* condition true or, at its deadline, with the timeout error.
C8_LookupErrorsAreNotYet ==
    /\ \A i \in 1 .. Len(hist.conds) :
          /\ hist.conds[i].err = "nil"
          /\ (op = "create" /\ hist.gets[i].err # "nil") => ~hist.conds[i].done
          /\ (op = "delete" /\ hist.gets[i].err \notin {"nil", "NotFound"})
                => ~hist.conds[i].done
          /\ (op = "deleteAll" /\ hist.lists[i].err # "nil") => ~hist.conds[i].done
    /\ (pc = "done" /\ op \in {"create", "delete", "deleteAll"} /\ hist.reqErr = NoErr) =>
          \/ /\ ret.err = NoErr
             /\ hist.conds # <<>> /\ Last(hist.conds).done
          \/ /\ ret.err = IF op = "create"
                          THEN Err(TimedOutKind, "ErrWaitTimeout", ret.err.detail)
                          ELSE ErrWaitTimeout
             /\ elapsed >= (IF op = "delete" THEN DeleteTimeout ELSE args.timeout)
             /\ \A i \in 1 .. Len(hist.conds) : ~hist.conds[i].done

\* A create whose first lookup failed, which went on polling and succeeded.
C8_Witness ==
    /\ Returned("create") /\ ret.err = NoErr
    /\ Len(hist.gets) >= 2
    /\ hist.gets[1].err = "InternalError"

\* C9: when the store rejects the create request, CreateApplicationWithTimeout
\* returns nil and the store's error as it is, after one Create, no Get and
\* no evaluation of the readiness condition.
C9_CreateRejectedReturnsStoreError ==
    (op = "create" /\ hist.reqErr # NoErr) =>
        /\ pc = "done"
        /\ ret.app.isNil
        /\ ret.err = hist.reqErr
        /\ hist.creates = 1
        /\ hist.gets = <<>> /\ hist.conds = <<>>
        /\ elapsed = 0

\* A create of an object that exists already, rejected by the store.
C9_Witness ==
    /\ Returned("create")
    /\ hist.reqErr = ErrAlreadyExists
    /\ ret.err = ErrAlreadyExists
    /\ store[CallKey].exists

\* C10: once the directory is created StoreTestLogs invokes the pod-log
\* export once and then the pipeline-run export once, whether or not the
\* first failed, and logs each failure; when MkdirAll fails it invokes neither.
C10_ExportsIndependentAndOrdered ==
    Returned("storeLogs") =>
        /\ hist.outcome.mkdirOk => hist.calls = <<"StorePodLogs", "StorePipelineRuns">>
        /\ ~hist.outcome.mkdirOk => hist.calls = <<>> /\ hist.sink = <<>>
        /\ Len(hist.sink) = (IF hist.outcome.mkdirOk /\ ~hist.outcome.podOk THEN 1 ELSE 0)
                          + (IF hist.outcome.mkdirOk /\ ~hist.outcome.pipelineOk THEN 1 ELSE 0)

\* The pod-log export failed and the pipeline-run export ran after it and succeeded.
C10_Witness ==
    /\ Returned("storeLogs")
    /\ hist.outcome.mkdirOk /\ ~hist.outcome.podOk /\ hist.outcome.pipelineOk
    /\ hist.calls = <<"StorePodLogs", "StorePipelineRuns">>
    /\ hist.sink = <<"Failed to store pod logs">>

====
